---- MODULE Spec2Model ----
(***************************************************************************)
(* Model of src/DataLoader.ts of NMIG: the worker that loads one chunk of  *)
(* a table from MySQL into PostgreSQL through "COPY ... FROM STDIN".       *)
(*                                                                         *)
(* State: the worker's closure variables (client, mysqlClient, dataBuffer, *)
(* originalSessionReplicationRole), the open copy streams, the pending     *)
(* asynchronous calls of processDataError / deleteChunk (one record per    *)
(* call, with the await it is parked at), the target session's             *)
(* session_replication_role, the rows an attempt committed in the target  *)
(* table and the data-pool (ledger) record of the chunk.                   *)
(***************************************************************************)
EXTENDS Naturals, Sequences, Bags

\* ---- bounds of the model ------------------------------------------------
MaxRows == 3          \* the chunk's source query yields at most MaxRows rows
MaxWatermark == 2     \* conversion._streamsHighWaterMark ranges over 1..MaxWatermark
MaxBadRows == 1       \* at most this many rows of an attempt fail in json2csv's parse
MaxAttempts == 2      \* number of 'message' signals the process receives

\* session_replication_role values a target session can start with, and
\* the value disableTriggers switches to
Roles == {"origin", "local"}
Replica == "replica"
Null == "null"

VARIABLES
    attempt,            \* number of the current 'message' signal
    pc,                 \* position of the message handler / populateTableWorker
    shouldMigrateOnlyData, \* conversion.shouldMigrateOnlyData()
    streamsHighWaterMark,  \* conversion._streamsHighWaterMark
    isRecoveryMode,     \* result of dataTransferred for this attempt
    mysqlClient,        \* "none" | "live" | "destroyed"
    paused,             \* mysqlClient.pause() in effect
    queryEnded,         \* the query has emitted 'end'
    srcPos,             \* next row the query will emit (1-based)
    pgAcquired,         \* DBAccess.getPgClient calls in this attempt
    clientReleases,     \* DBAccess.releaseDbClient calls in this attempt
    sessionRole,        \* session_replication_role of the target session
    initialRole,        \* its value when the attempt started
    originalSessionReplicationRole, \* populateTableWorker's local (Null when not captured)
    dataBuffer,         \* populateTableWorker's dataBuffer
    copyStreams,        \* open copy streams, each with the rows piped into it
    streamsOpened,      \* client.query(from(sqlCopy)) calls in this attempt
    copyErrored,        \* some copy stream of this attempt emitted 'error'
    encodeFailures,     \* rows of this attempt for which parse(row, ...) threw
    calls,              \* bag of the attempt's processDataError / deleteChunk calls
    sentToMaster,       \* rowsLoaded of every MessageToMaster sent in this attempt
    enableCalls,        \* enableTriggers calls in this attempt
    usedAfterRelease,   \* the client ran a statement after releaseDbClient
    targetRows,         \* rows this attempt committed in the target table, in commit order
    dataPool,           \* TRUE while the chunk's data-pool record exists
    recoveryRuns        \* attempts so far that took the recovery branch

cfgVars == <<shouldMigrateOnlyData, streamsHighWaterMark>>
srcVars == <<mysqlClient, paused, queryEnded, srcPos>>
vars == <<attempt, pc, shouldMigrateOnlyData, streamsHighWaterMark, isRecoveryMode, mysqlClient, paused, queryEnded, srcPos,
          pgAcquired, clientReleases, sessionRole, initialRole,
          originalSessionReplicationRole, dataBuffer, copyStreams,
          streamsOpened, copyErrored, encodeFailures, calls, sentToMaster,
          enableCalls, usedAfterRelease, targetRows, dataPool, recoveryRuns>>

\* ---- helpers ------------------------------------------------------------

\* json2csv's parse(row, {delimiter, header: false, fields}): one csv record per row
parse(row) == [csv |-> row]

\* new MessageToMaster(tableName, rowsLoaded)
MessageToMaster(rowsLoaded) == [rowsLoaded |-> rowsLoaded]

\* a pending call of processDataError ("error") or of deleteChunk from the
\* message handler ("recovery"), parked at the await named by at
\* (del records how its DELETE statement went: "none", "ok" or "failed")
NewCall(kind) ==
    [kind |-> kind, at |-> IF kind = "error" THEN "log" ELSE "delete", del |-> "none"]

\* the calls, with one more call c / with call c having moved on to d
AddCall(c) == calls (+) SetToBag({c})
MoveCall(c, d) == (calls (-) SetToBag({c})) (+) SetToBag({d})

Remove(s, i) == [j \in 1..(Len(s) - 1) |-> IF j < i THEN s[j] ELSE s[j + 1]]

\* a statement is run on the client: it is a use after release when the
\* client has already been handed back to the pool
UseClient == usedAfterRelease \/ clientReleases > 0

Init ==
    /\ attempt = 1
    /\ pc = "message"
    /\ shouldMigrateOnlyData \in BOOLEAN
    /\ streamsHighWaterMark \in 1..MaxWatermark
    /\ isRecoveryMode = FALSE
    /\ mysqlClient = "none"
    /\ paused = FALSE
    /\ queryEnded = FALSE
    /\ srcPos = 1
    /\ pgAcquired = 0
    /\ clientReleases = 0
    /\ sessionRole \in Roles
    /\ initialRole = sessionRole
    /\ originalSessionReplicationRole = Null
    /\ dataBuffer = <<>>
    /\ copyStreams = <<>>
    /\ streamsOpened = 0
    /\ copyErrored = FALSE
    /\ encodeFailures = 0
    /\ calls = EmptyBag
    /\ sentToMaster = <<>>
    /\ enableCalls = 0
    /\ usedAfterRelease = FALSE
    /\ targetRows = <<>>
    /\ dataPool = TRUE
    /\ recoveryRuns = 0


\* ---- process.on('message') ----------------------------------------------

\* MessageNormal without the shouldMigrateOnlyData() test of line 127:
\* disableTriggers is always called
MessageNormal_AlwaysDisables ==
    /\ pc = "message"
    /\ isRecoveryMode' = FALSE
    /\ mysqlClient' = "live"
    /\ pgAcquired' = pgAcquired + 1
    /\ pc' = "show"
    /\ UNCHANGED <<attempt, cfgVars, paused, queryEnded, srcPos, clientReleases,
                   sessionRole, initialRole, originalSessionReplicationRole,
                   dataBuffer, copyStreams, streamsOpened, copyErrored,
                   encodeFailures, calls, sentToMaster, enableCalls,
                   usedAfterRelease, targetRows, dataPool, recoveryRuns>>

\* lines 45-49: dataTransferred returned false; populateTableWorker acquires
\* the MySQL connection and the PostgreSQL client (lines 121, 124)
MessageNormal ==
    /\ pc = "message"
    /\ isRecoveryMode' = FALSE
    /\ mysqlClient' = "live"
    /\ pgAcquired' = pgAcquired + 1
    /\ pc' = IF shouldMigrateOnlyData THEN "show" ELSE "query"
    /\ UNCHANGED <<attempt, cfgVars, paused, queryEnded, srcPos, clientReleases,
                   sessionRole, initialRole, originalSessionReplicationRole,
                   dataBuffer, copyStreams, streamsOpened, copyErrored,
                   encodeFailures, calls, sentToMaster, enableCalls,
                   usedAfterRelease, targetRows, dataPool, recoveryRuns>>

\* MessageRecovery with the early return of line 49 misplaced: the recovery
\* branch also enters populateTableWorker
MessageRecovery_Populates ==
    /\ pc = "message"
    /\ isRecoveryMode' = TRUE
    /\ pgAcquired' = pgAcquired + 1
    /\ calls' = AddCall(NewCall("recovery"))
    /\ mysqlClient' = "live"
    /\ pc' = "query"
    /\ recoveryRuns' = recoveryRuns + 1
    /\ UNCHANGED <<attempt, cfgVars, paused, queryEnded, srcPos, clientReleases,
                   sessionRole, initialRole, originalSessionReplicationRole,
                   dataBuffer, copyStreams, streamsOpened, copyErrored,
                   encodeFailures, sentToMaster, enableCalls, usedAfterRelease,
                   targetRows, dataPool>>

\* lines 45, 52-53: dataTransferred returned true; a client is acquired and
\* deleteChunk(conv, chunk._id, client) is called without a captured role
MessageRecovery ==
    /\ pc = "message"
    /\ isRecoveryMode' = TRUE
    /\ pgAcquired' = pgAcquired + 1
    /\ calls' = AddCall(NewCall("recovery"))
    /\ pc' = "recovery"
    /\ recoveryRuns' = recoveryRuns + 1
    /\ UNCHANGED <<attempt, cfgVars, srcVars, clientReleases, sessionRole,
                   initialRole, originalSessionReplicationRole, dataBuffer,
                   copyStreams, streamsOpened, copyErrored, encodeFailures,
                   sentToMaster, enableCalls, usedAfterRelease, targetRows,
                   dataPool>>

\* ---- disableTriggers (lines 263-277) ------------------------------------

\* DisableTriggersShow without the default of line 265: nothing is returned
\* when the SHOW statement fails
DisableTriggersShow_NoDefault(ok) ==
    /\ pc = "show"
    /\ originalSessionReplicationRole' = IF ok THEN sessionRole ELSE Null
    /\ pc' = IF ok THEN "set" ELSE "query"
    /\ usedAfterRelease' = UseClient
    /\ UNCHANGED <<attempt, cfgVars, isRecoveryMode, srcVars, pgAcquired,
                   clientReleases, sessionRole, initialRole, dataBuffer,
                   copyStreams, streamsOpened, copyErrored, encodeFailures, calls,
                   sentToMaster, enableCalls, targetRows, dataPool, recoveryRuns>>

\* SHOW session_replication_role: on success the value read is kept, on
\* failure the catch block logs and the default 'origin' is returned
DisableTriggersShow(ok) ==
    /\ pc = "show"
    /\ originalSessionReplicationRole' = IF ok THEN sessionRole ELSE "origin"
    /\ pc' = IF ok THEN "set" ELSE "query"
    /\ usedAfterRelease' = UseClient
    /\ UNCHANGED <<attempt, cfgVars, isRecoveryMode, srcVars, pgAcquired,
                   clientReleases, sessionRole, initialRole, dataBuffer,
                   copyStreams, streamsOpened, copyErrored, encodeFailures, calls,
                   sentToMaster, enableCalls, targetRows, dataPool, recoveryRuns>>

\* SET session_replication_role = replica: a failure is logged only
DisableTriggersSet(ok) ==
    /\ pc = "set"
    /\ sessionRole' = IF ok THEN Replica ELSE sessionRole
    /\ pc' = "query"
    /\ usedAfterRelease' = UseClient
    /\ UNCHANGED <<attempt, cfgVars, isRecoveryMode, srcVars, pgAcquired,
                   clientReleases, initialRole, originalSessionReplicationRole,
                   dataBuffer, copyStreams, streamsOpened, copyErrored,
                   encodeFailures, calls, sentToMaster, enableCalls, targetRows,
                   dataPool, recoveryRuns>>

\* ---- populateTableWorker: the source query and its handlers -------------

\* lines 131-133: mysqlClient.query(sqlRetrieve), dataBuffer = []
StartQuery ==
    /\ pc = "query"
    /\ pc' = "streaming"
    /\ dataBuffer' = <<>>
    /\ UNCHANGED <<attempt, cfgVars, isRecoveryMode, srcVars, pgAcquired,
                   clientReleases, sessionRole, initialRole,
                   originalSessionReplicationRole, copyStreams, streamsOpened,
                   copyErrored, encodeFailures, calls, sentToMaster, enableCalls,
                   usedAfterRelease, targetRows, dataPool, recoveryRuns>>

\* the query can deliver an event: it is running and has not ended
QueryRunning == pc = "streaming" /\ mysqlClient = "live" /\ ~queryEnded

\* QueryResult without the mysqlClient.pause() of line 164
QueryResult_NoPause(ok) ==
    /\ QueryRunning
    /\ ~paused
    /\ srcPos <= MaxRows
    /\ ~ok => encodeFailures < MaxBadRows
    /\ srcPos' = srcPos + 1
    /\ IF ~ok
       THEN /\ encodeFailures' = encodeFailures + 1
            /\ calls' = AddCall(NewCall("error"))
            /\ UNCHANGED <<dataBuffer, copyStreams, streamsOpened,
                           usedAfterRelease>>
       ELSE /\ dataBuffer' = Append(dataBuffer, parse(srcPos))
            /\ IF Len(dataBuffer') >= streamsHighWaterMark
               THEN /\ copyStreams' = Append(copyStreams, dataBuffer')
                    /\ streamsOpened' = streamsOpened + 1
                    /\ usedAfterRelease' = UseClient
               ELSE UNCHANGED <<copyStreams, streamsOpened, usedAfterRelease>>
            /\ UNCHANGED <<encodeFailures, calls>>
    /\ UNCHANGED <<attempt, pc, cfgVars, isRecoveryMode, mysqlClient, paused,
                   queryEnded, pgAcquired, clientReleases, sessionRole,
                   initialRole, originalSessionReplicationRole, copyErrored,
                   sentToMaster, enableCalls, targetRows, dataPool,
                   recoveryRuns>>

\* lines 148-178, 'result' handler for the next row of the cursor; ok tells
\* whether parse(row, ...) returns.  parse succeeds: the record is pushed and,
\* at the watermark, 'chunkBuffered' is emitted (lines 190-218: getCopyStream
\* opens a copy stream on the client and dataBuffer is piped into it) and the
\* connection is paused.  parse throws: processDataError is called.
QueryResult(ok) ==
    /\ QueryRunning
    /\ ~paused
    /\ srcPos <= MaxRows
    /\ ~ok => encodeFailures < MaxBadRows
    /\ srcPos' = srcPos + 1
    /\ IF ~ok
       THEN /\ encodeFailures' = encodeFailures + 1
            /\ calls' = AddCall(NewCall("error"))
            /\ UNCHANGED <<dataBuffer, copyStreams, streamsOpened, paused,
                           usedAfterRelease>>
       ELSE /\ dataBuffer' = Append(dataBuffer, parse(srcPos))
            /\ IF Len(dataBuffer') >= streamsHighWaterMark
               THEN /\ copyStreams' = Append(copyStreams, dataBuffer')
                    /\ streamsOpened' = streamsOpened + 1
                    /\ usedAfterRelease' = UseClient
                    /\ paused' = TRUE
               ELSE UNCHANGED <<copyStreams, streamsOpened, paused,
                                usedAfterRelease>>
            /\ UNCHANGED <<encodeFailures, calls>>
    /\ UNCHANGED <<attempt, pc, cfgVars, isRecoveryMode, mysqlClient,
                   queryEnded, pgAcquired, clientReleases, sessionRole,
                   initialRole, originalSessionReplicationRole, copyErrored,
                   sentToMaster, enableCalls, targetRows, dataPool, recoveryRuns>>

\* lines 179-184, 'end' handler after the cursor's last row (the chunk has as
\* many rows as were delivered so far): mysqlClient.destroy()
QueryEnd ==
    /\ QueryRunning
    /\ ~paused
    /\ queryEnded' = TRUE
    /\ mysqlClient' = "destroyed"
    /\ UNCHANGED <<attempt, pc, cfgVars, isRecoveryMode, paused, srcPos,
                   pgAcquired, clientReleases, sessionRole, initialRole,
                   originalSessionReplicationRole, dataBuffer, copyStreams,
                   streamsOpened, copyErrored, encodeFailures, calls,
                   sentToMaster, enableCalls, usedAfterRelease, targetRows,
                   dataPool, recoveryRuns>>

\* lines 136-147, 'error' handler: processDataError is called.  The mysql
\* query then emits 'end' as well (lines 179-184), which destroys the
\* connection; no further row is delivered.
QueryError ==
    /\ QueryRunning
    /\ calls' = AddCall(NewCall("error"))
    /\ queryEnded' = TRUE
    /\ mysqlClient' = "destroyed"
    /\ UNCHANGED <<attempt, pc, cfgVars, isRecoveryMode, paused, srcPos,
                   pgAcquired, clientReleases, sessionRole, initialRole,
                   originalSessionReplicationRole, dataBuffer, copyStreams,
                   streamsOpened, copyErrored, encodeFailures, sentToMaster,
                   enableCalls, usedAfterRelease, targetRows, dataPool, recoveryRuns>>

\* ---- getCopyStream (lines 224-257) --------------------------------------

\* CopyStreamFinish with the processSend of line 249 not commented out
CopyStreamFinish_Reports(i) ==
    /\ i \in 1..Len(copyStreams)
    /\ targetRows' = targetRows \o copyStreams[i]
    /\ copyStreams' = Remove(copyStreams, i)
    /\ paused' = FALSE
    /\ sentToMaster' = Append(sentToMaster, MessageToMaster(Len(copyStreams[i])))
    /\ UNCHANGED <<attempt, pc, cfgVars, isRecoveryMode, mysqlClient,
                   queryEnded, srcPos, pgAcquired, clientReleases, sessionRole,
                   initialRole, originalSessionReplicationRole, dataBuffer,
                   streamsOpened, copyErrored, encodeFailures, calls,
                   enableCalls, usedAfterRelease, dataPool, recoveryRuns>>

\* 'finish' handler, lines 239-251: the COPY committed the rows piped into
\* the stream.  "dataBuffer = []" assigns getCopyStream's own parameter, so
\* populateTableWorker's dataBuffer keeps its records; 'chunkLoaded' is
\* emitted (lines 186-188: mysqlClient.resume()) and the stream is destroyed.
CopyStreamFinish(i) ==
    /\ i \in 1..Len(copyStreams)
    /\ targetRows' = targetRows \o copyStreams[i]
    /\ copyStreams' = Remove(copyStreams, i)
    /\ paused' = FALSE
    /\ UNCHANGED <<attempt, pc, cfgVars, isRecoveryMode, mysqlClient,
                   queryEnded, srcPos, pgAcquired, clientReleases, sessionRole,
                   initialRole, originalSessionReplicationRole, dataBuffer,
                   streamsOpened, copyErrored, encodeFailures, calls,
                   sentToMaster, enableCalls, usedAfterRelease, dataPool, recoveryRuns>>

\* CopyStreamError that also emits 'chunkLoaded', as the 'finish' handler does
CopyStreamError_Resumes(i) ==
    /\ i \in 1..Len(copyStreams)
    /\ copyStreams' = Remove(copyStreams, i)
    /\ copyErrored' = TRUE
    /\ calls' = AddCall(NewCall("error"))
    /\ paused' = FALSE
    /\ UNCHANGED <<attempt, pc, cfgVars, isRecoveryMode, mysqlClient,
                   queryEnded, srcPos, pgAcquired, clientReleases, sessionRole,
                   initialRole, originalSessionReplicationRole, dataBuffer,
                   streamsOpened, encodeFailures, sentToMaster, enableCalls,
                   usedAfterRelease, targetRows, dataPool, recoveryRuns>>

\* 'error' handler, lines 252-254: nothing of the batch is committed and
\* processDataError is called; the connection stays paused
CopyStreamError(i) ==
    /\ i \in 1..Len(copyStreams)
    /\ copyStreams' = Remove(copyStreams, i)
    /\ copyErrored' = TRUE
    /\ calls' = AddCall(NewCall("error"))
    /\ UNCHANGED <<attempt, pc, cfgVars, isRecoveryMode, srcVars, pgAcquired,
                   clientReleases, sessionRole, initialRole,
                   originalSessionReplicationRole, dataBuffer, streamsOpened,
                   encodeFailures, sentToMaster, enableCalls, usedAfterRelease,
                   targetRows, dataPool, recoveryRuns>>


\* ---- processDataError (lines 92-107) and deleteChunk (lines 68-87) ------

\* the role deleteChunk receives: populateTableWorker's captured role from
\* processDataError, the default null from the message handler
RoleOf(c) == IF c.kind = "error" THEN originalSessionReplicationRole ELSE Null

\* lines 102-104: generateError and the rejected-data log, then deleteChunk
\* is entered
CallLog(c) ==
    /\ BagIn(c, calls)
    /\ c.at = "log"
    /\ calls' = MoveCall(c, [c EXCEPT !.at = "delete"])
    /\ UNCHANGED <<attempt, pc, cfgVars, isRecoveryMode, srcVars, pgAcquired,
                   clientReleases, sessionRole, initialRole,
                   originalSessionReplicationRole, dataBuffer, copyStreams,
                   streamsOpened, copyErrored, encodeFailures, sentToMaster,
                   enableCalls, usedAfterRelease, targetRows, dataPool, recoveryRuns>>

\* CallDelete with the release in the try block instead of finally: a failed
\* DELETE skips releaseDbClient
CallDelete_NoFinally(c, ok) ==
    /\ BagIn(c, calls)
    /\ c.at = "delete"
    /\ dataPool' = IF ok THEN FALSE ELSE dataPool
    /\ calls' = MoveCall(c, [c EXCEPT
                   !.at = IF ~ok
                          THEN (IF c.kind = "error" THEN "send" ELSE "done")
                          ELSE IF RoleOf(c) # Null THEN "enable" ELSE "release",
                   !.del = IF ok THEN "ok" ELSE "failed"])
    /\ usedAfterRelease' = UseClient
    /\ UNCHANGED <<attempt, pc, cfgVars, isRecoveryMode, srcVars, pgAcquired,
                   clientReleases, sessionRole, initialRole,
                   originalSessionReplicationRole, dataBuffer, copyStreams,
                   streamsOpened, copyErrored, encodeFailures, sentToMaster,
                   enableCalls, targetRows, recoveryRuns>>

\* CallDelete with enableTriggers moved out of the try block: the role is
\* restored after a failed DELETE too
CallDelete_RestoresAnyway(c, ok) ==
    /\ BagIn(c, calls)
    /\ c.at = "delete"
    /\ dataPool' = IF ok THEN FALSE ELSE dataPool
    /\ calls' = MoveCall(c, [c EXCEPT
                   !.at = IF RoleOf(c) # Null THEN "enable" ELSE "release",
                   !.del = IF ok THEN "ok" ELSE "failed"])
    /\ usedAfterRelease' = UseClient
    /\ UNCHANGED <<attempt, pc, cfgVars, isRecoveryMode, srcVars, pgAcquired,
                   clientReleases, sessionRole, initialRole,
                   originalSessionReplicationRole, dataBuffer, copyStreams,
                   streamsOpened, copyErrored, encodeFailures, sentToMaster,
                   enableCalls, targetRows, recoveryRuns>>

\* lines 76-83: the DELETE statement.  On success enableTriggers follows when
\* a role was passed; on failure the catch block logs and the try block's
\* remaining statements are skipped
CallDelete(c, ok) ==
    /\ BagIn(c, calls)
    /\ c.at = "delete"
    /\ dataPool' = IF ok THEN FALSE ELSE dataPool
    /\ calls' = MoveCall(c, [c EXCEPT
                   !.at = IF ok /\ RoleOf(c) # Null THEN "enable" ELSE "release",
                   !.del = IF ok THEN "ok" ELSE "failed"])
    /\ usedAfterRelease' = UseClient
    /\ UNCHANGED <<attempt, pc, cfgVars, isRecoveryMode, srcVars, pgAcquired,
                   clientReleases, sessionRole, initialRole,
                   originalSessionReplicationRole, dataBuffer, copyStreams,
                   streamsOpened, copyErrored, encodeFailures, sentToMaster,
                   enableCalls, targetRows, recoveryRuns>>

\* enableTriggers, lines 283-295: SET session_replication_role = <role>;
\* a failure is logged inside enableTriggers and does not propagate
CallEnable(c, ok) ==
    /\ BagIn(c, calls)
    /\ c.at = "enable"
    /\ sessionRole' = IF ok THEN RoleOf(c) ELSE sessionRole
    /\ enableCalls' = enableCalls + 1
    /\ calls' = MoveCall(c, [c EXCEPT !.at = "release"])
    /\ usedAfterRelease' = UseClient
    /\ UNCHANGED <<attempt, pc, cfgVars, isRecoveryMode, srcVars, pgAcquired,
                   clientReleases, initialRole, originalSessionReplicationRole,
                   dataBuffer, copyStreams, streamsOpened, copyErrored,
                   encodeFailures, sentToMaster, targetRows, dataPool, recoveryRuns>>

\* lines 84-86: finally, DBAccess.releaseDbClient(conversion, client)
CallRelease(c) ==
    /\ BagIn(c, calls)
    /\ c.at = "release"
    /\ clientReleases' = clientReleases + 1
    /\ calls' = MoveCall(c, [c EXCEPT
                   !.at = IF c.kind = "error" THEN "send" ELSE "done"])
    /\ UNCHANGED <<attempt, pc, cfgVars, isRecoveryMode, srcVars, pgAcquired,
                   sessionRole, initialRole, originalSessionReplicationRole,
                   dataBuffer, copyStreams, streamsOpened, copyErrored,
                   encodeFailures, sentToMaster, enableCalls, usedAfterRelease,
                   targetRows, dataPool, recoveryRuns>>

\* line 106: processSend(new MessageToMaster(tableName, 0))
CallSend(c) ==
    /\ BagIn(c, calls)
    /\ c.at = "send"
    /\ sentToMaster' = Append(sentToMaster, MessageToMaster(0))
    /\ calls' = MoveCall(c, [c EXCEPT !.at = "done"])
    /\ UNCHANGED <<attempt, pc, cfgVars, isRecoveryMode, srcVars, pgAcquired,
                   clientReleases, sessionRole, initialRole,
                   originalSessionReplicationRole, dataBuffer, copyStreams,
                   streamsOpened, copyErrored, encodeFailures, enableCalls,
                   usedAfterRelease, targetRows, dataPool, recoveryRuns>>

\* ---- the end of an attempt and the next 'message' -----------------------

AllCallsDone == \A c \in BagToSet(calls) : c.at = "done"

\* the attempt has nothing left to run: every asynchronous call has
\* returned, no copy stream is open, and the source query has ended or is
\* paused with nothing left that would resume it
Finished ==
    /\ pc \in {"recovery", "streaming"}
    /\ AllCallsDone
    /\ copyStreams = <<>>
    /\ pc = "streaming" => (queryEnded \/ paused)

\* line 40: the next 'message' signal for the chunk starts a new attempt with
\* fresh locals; the data-pool keeps its contents, the rows committed are
\* counted anew, and the pool hands out a session in one of the starting roles
NextMessage ==
    /\ attempt < MaxAttempts
    /\ Finished
    /\ attempt' = attempt + 1
    /\ pc' = "message"
    /\ isRecoveryMode' = FALSE
    /\ mysqlClient' = "none"
    /\ paused' = FALSE
    /\ queryEnded' = FALSE
    /\ srcPos' = 1
    /\ pgAcquired' = 0
    /\ clientReleases' = 0
    /\ sessionRole' \in Roles
    /\ initialRole' = sessionRole'
    /\ originalSessionReplicationRole' = Null
    /\ dataBuffer' = <<>>
    /\ copyStreams' = <<>>
    /\ streamsOpened' = 0
    /\ copyErrored' = FALSE
    /\ encodeFailures' = 0
    /\ calls' = EmptyBag
    /\ sentToMaster' = <<>>
    /\ enableCalls' = 0
    /\ usedAfterRelease' = FALSE
    /\ targetRows' = <<>>
    /\ UNCHANGED <<cfgVars, dataPool, recoveryRuns>>

Next ==
    \/ MessageNormal
    \/ MessageRecovery
    \/ \E ok \in BOOLEAN : DisableTriggersShow(ok)
    \/ \E ok \in BOOLEAN : DisableTriggersSet(ok)
    \/ StartQuery
    \/ \E ok \in BOOLEAN : QueryResult(ok)
    \/ QueryEnd
    \/ QueryError
    \/ \E i \in 1..Len(copyStreams) : CopyStreamFinish(i)
    \/ \E i \in 1..Len(copyStreams) : CopyStreamError(i)
    \/ \E c \in BagToSet(calls) : CallLog(c)
    \/ \E c \in BagToSet(calls), ok \in BOOLEAN : CallDelete(c, ok)
    \/ \E c \in BagToSet(calls), ok \in BOOLEAN : CallEnable(c, ok)
    \/ \E c \in BagToSet(calls) : CallRelease(c)
    \/ \E c \in BagToSet(calls) : CallSend(c)
    \/ NextMessage

Spec == Init /\ [][Next]_vars


\* ---- properties ---------------------------------------------------------

\* number of the attempt's DELETE statements that failed
DeletesFailed ==
    BagCardinality([c \in {d \in BagToSet(calls) : d.del = "failed"} |-> calls[c]])

\* the rows loaded so far are the first rows of the source, each once, in
\* the source's order
IsSourcePrefix(rows) ==
    /\ Len(rows) < srcPos
    /\ \A k \in 1..Len(rows) : rows[k] = parse(k)

\* C1: the target connection acquired for a chunk attempt is released
\* exactly once: never twice, and once the attempt has finished, once.
C1_ReleasedExactlyOnce ==
    /\ clientReleases <= 1
    /\ Finished => clientReleases = 1

\* C2: after a finished attempt the session's session_replication_role equals
\* its value before the attempt, and a captured role is restored at most once.
C2_RoleRestored ==
    /\ enableCalls <= 1
    /\ Finished => sessionRole = initialRole

\* C3: once a copy stream of the chunk has reported an error, the rows of the
\* earlier batches stay committed and nothing more is committed, no further
\* copy stream is opened, and the source stays paused: no further row is read.
C3_NoLoadAfterCopyError ==
    /\ [](copyErrored => paused)
    /\ [][copyErrored /\ attempt' = attempt =>
             /\ targetRows' = targetRows
             /\ streamsOpened' = streamsOpened
             /\ srcPos' = srcPos
             /\ paused']_vars

\* C3 witness: a later batch failed after the first was committed, the
\* cursor has not ended, and the failure has been processed
C3_Witness ==
    /\ copyErrored
    /\ targetRows # <<>>
    /\ ~queryEnded
    /\ srcPos <= MaxRows
    /\ Finished

\* C4: the batch buffer never holds more than watermark + 1 records.
C4_BufferBounded == Len(dataBuffer) <= streamsHighWaterMark + 1

\* C5: the rows an attempt committed through copy streams are a
\* duplicate-free prefix of the source's rows, in source order.
C5_LoadedRowsArePrefix == IsSourcePrefix(targetRows)

\* C6: in an attempt that took the recovery branch no source connection is
\* acquired, no row is read, no copy stream is opened, no row is written to
\* the target, the session role is not touched and nothing is sent; the
\* attempt ends with one client acquired and released once.
C6_RecoveryOnlyCleansUp ==
    /\ [](isRecoveryMode =>
             /\ mysqlClient = "none"
             /\ srcPos = 1
             /\ dataBuffer = <<>>
             /\ streamsOpened = 0
             /\ copyStreams = <<>>
             /\ enableCalls = 0
             /\ sentToMaster = <<>>
             /\ pgAcquired = 1
             /\ clientReleases <= 1
             /\ targetRows = <<>>
             /\ (Finished => clientReleases = 1)
             /\ (Finished /\ DeletesFailed = 0 => ~dataPool))
    /\ [][isRecoveryMode /\ attempt' = attempt =>
             sessionRole' = sessionRole]_vars

\* C6 witness: the recovery branch has run to its end twice for the chunk
C6_Witness ==
    /\ recoveryRuns = 2
    /\ isRecoveryMode
    /\ Finished
    /\ ~dataPool

\* C7: at most one copy stream is open at a time: a stream is opened only
\* when none is open, and while one is open the source is paused.
C7_OneCopyStream ==
    /\ [](Len(copyStreams) <= 1 /\ (copyStreams # <<>> => paused))
    /\ [][streamsOpened' > streamsOpened => copyStreams = <<>>]_vars

\* C7 witness: a second copy stream of the chunk is open, after the first
\* one finished
C7_Witness ==
    /\ streamsOpened >= 2
    /\ Len(copyStreams) = 1
    /\ targetRows # <<>>

\* C8: after a row has failed to encode, no further row is read or appended
\* to the buffer and no copy stream is opened in that attempt.
C8_EncodeFailureAborts ==
    [][encodeFailures > 0 /\ attempt' = attempt =>
          /\ srcPos' = srcPos
          /\ dataBuffer' = dataBuffer
          /\ streamsOpened' = streamsOpened]_vars

\* C9: at most one MessageToMaster is sent per attempt, and an attempt that
\* ran populateTableWorker has sent exactly one when it has finished.
C9_OneOutcome ==
    /\ Len(sentToMaster) <= 1
    /\ Finished /\ ~isRecoveryMode => Len(sentToMaster) = 1

\* C10: a finished attempt has run deleteChunk exactly once, has released the
\* target client once, and the data-pool record is gone unless the DELETE
\* statement itself failed.
C10_FinishedAfterCleanup ==
    Finished =>
        /\ BagCardinality(calls) = 1
        /\ clientReleases = 1
        /\ (DeletesFailed > 0 \/ ~dataPool)

\* C11: when the cursor has ended and no error occurred in the attempt, every
\* row the cursor yielded has been committed in the target, including the
\* rows of a last batch shorter than the watermark.
C11_AllRowsLoaded ==
    (Finished /\ queryEnded /\ calls = EmptyBag /\ ~isRecoveryMode) =>
        \A k \in 1..(srcPos - 1) :
            \E j \in 1..Len(targetRows) : targetRows[j] = parse(k)

\* C12: an attempt that ran populateTableWorker ends with the MySQL
\* connection destroyed.
C12_SourceDestroyed ==
    (Finished /\ ~isRecoveryMode) => mysqlClient = "destroyed"

\* number of the attempt's calls that are in the set S of call records
CountCalls(S) == BagCardinality([c \in S |-> calls[c]])

\* the call records of calls whose DELETE has run / has succeeded, and of
\* calls that are past releaseDbClient
DeleteRan == {c \in BagToSet(calls) : c.del # "none"}
DeleteOk == {c \in BagToSet(calls) : c.del = "ok"}
Released == {c \in BagToSet(calls) : c.at \in {"send", "done"}}

\* statements run on the client after disableTriggers: COPY, DELETE and the
\* SET of enableTriggers
StatementsRun == streamsOpened + CountCalls(DeleteRan) + enableCalls

\* C13: the cleanup of an error runs in the order log, DELETE, restoration,
\* release, notification; the notification reports 0 rows; and the
\* restoration is the last statement run on the client in the attempt.
C13_CleanupOrder ==
    /\ [](/\ Len(sentToMaster) <= clientReleases
          /\ clientReleases <= CountCalls(DeleteRan)
          /\ enableCalls <= CountCalls(DeleteOk)
          /\ \A k \in 1..Len(sentToMaster) : sentToMaster[k] = MessageToMaster(0))
    /\ [][enableCalls > 0 /\ attempt' = attempt =>
             StatementsRun' = StatementsRun]_vars

\* a copy stream of the attempt ends in this step, with 'finish' / 'error'
StreamFinishes ==
    /\ attempt' = attempt
    /\ Len(copyStreams') < Len(copyStreams)
    /\ copyErrored' = copyErrored
    /\ calls' = calls
StreamFails ==
    /\ attempt' = attempt
    /\ Len(copyStreams') < Len(copyStreams)
    /\ calls' # calls

\* C14: when a copy stream ends, with 'finish' or with 'error', the buffer
\* the 'result' handler pushes to is empty; the connection is resumed by a
\* 'finish' only, never by an 'error'.
C14_BufferResetAfterBatch ==
    /\ [][StreamFinishes \/ StreamFails => dataBuffer' = <<>>]_vars
    /\ [][StreamFails => paused' = paused]_vars
    /\ [][paused /\ ~paused' /\ attempt' = attempt => StreamFinishes]_vars

\* C15: a copy stream's 'finish' deletes no data-pool record, sends nothing,
\* releases nothing and leaves the session role alone; an attempt in which
\* no error occurs (and which is not a recovery) sends no MessageToMaster,
\* keeps the data-pool record and never releases the client.
C15_SuccessPathNoCleanup ==
    /\ [][StreamFinishes =>
             /\ dataPool' = dataPool
             /\ sentToMaster' = sentToMaster
             /\ clientReleases' = clientReleases
             /\ sessionRole' = sessionRole
             /\ ~paused']_vars
    /\ [](calls = EmptyBag =>
             /\ sentToMaster = <<>>
             /\ clientReleases = 0
             /\ enableCalls = 0)
    /\ [][calls = EmptyBag /\ calls' = EmptyBag /\ attempt' = attempt =>
             dataPool' = dataPool]_vars

\* C15 witness: every row was read, two batches were committed, the cursor
\* ended without any error, and the data-pool record is still there
C15_Witness ==
    /\ Finished
    /\ ~isRecoveryMode
    /\ queryEnded
    /\ calls = EmptyBag
    /\ streamsOpened >= 2
    /\ Len(targetRows) >= 2
    /\ dataPool
    /\ sentToMaster = <<>>

\* C16: disableTriggers always returns a role and never raises: when the SHOW
\* fails it returns 'origin' and leaves the session alone, when only the SET
\* fails it returns the role read; either way no error cleanup is started and
\* populateTableWorker goes on to start the source query.
C16_DisableTriggersFailOpen ==
    /\ [](shouldMigrateOnlyData /\ pc \in {"query", "streaming"} =>
             /\ originalSessionReplicationRole \in {initialRole, "origin"}
             /\ originalSessionReplicationRole # Null)
    /\ [](pc = "set" => /\ originalSessionReplicationRole = initialRole
                        /\ sessionRole = initialRole)
    /\ [][pc = "show" /\ pc' # "show" =>
             /\ sessionRole' = sessionRole
             /\ calls' = calls
             /\ \/ pc' = "set" /\ originalSessionReplicationRole' = sessionRole
                \/ pc' = "query" /\ originalSessionReplicationRole' = "origin"]_vars
    /\ [][pc = "set" /\ pc' # "set" =>
             /\ pc' = "query"
             /\ calls' = calls
             /\ originalSessionReplicationRole' = originalSessionReplicationRole
             /\ sessionRole' \in {Replica, sessionRole}]_vars

\* C16 witness: the SHOW failed on a session whose role is 'local' (the
\* default 'origin' was returned, the session was not switched) and rows of
\* the chunk have been committed afterwards
C16_Witness ==
    /\ pc = "streaming"
    /\ shouldMigrateOnlyData
    /\ initialRole = "local"
    /\ sessionRole = "local"
    /\ originalSessionReplicationRole = "origin"
    /\ targetRows # <<>>

\* C17: every deleteChunk call releases the client, whether its DELETE
\* succeeded or failed: a call whose DELETE failed goes on to the release, the
\* calls that have returned are as many as the releases, and a finished
\* attempt has released once per call.
C17_DeleteFailureStillReleases ==
    /\ clientReleases = CountCalls(Released)
    /\ \A c \in BagToSet(calls) :
           c.del = "failed" => c.at \in {"release", "send", "done"}
    /\ Finished => clientReleases = BagCardinality(calls)

\* C17 witness: a DELETE failed, the data-pool record is still there, and
\* the call has released the client and returned
C17_Witness ==
    /\ dataPool
    /\ clientReleases >= 1
    /\ \E c \in BagToSet(calls) : c.del = "failed" /\ c.at = "done"

\* C18: the session role is read and switched only in a data-only migration,
\* and then before the source query is started and before any copy stream is
\* opened; otherwise the role is never captured, switched or restored.
C18_DisableOnlyWhenDataOnly ==
    /\ [](~shouldMigrateOnlyData =>
             /\ pc \notin {"show", "set"}
             /\ originalSessionReplicationRole = Null
             /\ sessionRole = initialRole
             /\ enableCalls = 0)
    /\ [](pc \in {"show", "set"} =>
             /\ srcPos = 1
             /\ streamsOpened = 0
             /\ dataBuffer = <<>>
             /\ calls = EmptyBag)
    /\ [](shouldMigrateOnlyData /\ pc = "streaming" =>
             originalSessionReplicationRole # Null)
    /\ [][/\ attempt' = attempt
          /\ originalSessionReplicationRole' # originalSessionReplicationRole
          => pc = "show" /\ shouldMigrateOnlyData]_vars
    /\ [][sessionRole' = Replica /\ sessionRole # Replica
          => pc = "set" /\ shouldMigrateOnlyData]_vars

\* C18 witness: not a data-only migration; rows were committed, an error's
\* cleanup deleted the data-pool record and returned, no role was restored
C18_Witness ==
    /\ ~shouldMigrateOnlyData
    /\ ~isRecoveryMode
    /\ Finished
    /\ targetRows # <<>>
    /\ \E c \in BagToSet(calls) : c.del = "ok" /\ c.at = "done"

\* C19: no statement is run and no copy stream is opened on the client
\* after it has been released.
C19_NoUseAfterRelease == ~usedAfterRelease

\* the call records of calls whose DELETE failed, and of calls that are past
\* the point where enableTriggers runs and ran it
DeleteFailed == {c \in BagToSet(calls) : c.del = "failed"}
Restored ==
    {c \in BagToSet(calls) : /\ c.del = "ok"
                             /\ RoleOf(c) # Null
                             /\ c.at \in {"release", "send", "done"}}

\* C20: deleteChunk calls enableTriggers if and only if a role was passed
\* and its DELETE succeeded; a failed DELETE leaves the session role as it
\* was, and after a failed DELETE or a failed restoration the client is
\* still released.
C20_RestoreIffDeleted ==
    /\ [](/\ enableCalls = CountCalls(Restored)
          /\ \A c \in BagToSet(calls) :
                 /\ c.at = "enable" => c.del = "ok" /\ RoleOf(c) # Null
                 /\ c.del = "failed" => c.at \in {"release", "send", "done"}
          /\ (Finished => clientReleases >= CountCalls(DeleteFailed) + enableCalls))
    /\ [][/\ attempt' = attempt
          /\ CountCalls(DeleteFailed)' > CountCalls(DeleteFailed)
          => sessionRole' = sessionRole /\ enableCalls' = enableCalls]_vars

\* C20 witness: in a data-only migration the session was switched to
\* replica, the cleanup's DELETE failed, no restoration was attempted, and
\* the call released the client with the session still in replica
C20_Witness ==
    /\ shouldMigrateOnlyData
    /\ Finished
    /\ sessionRole = Replica
    /\ enableCalls = 0
    /\ clientReleases = 1
    /\ \E c \in BagToSet(calls) : c.del = "failed" /\ c.at = "done"

====
